---- MODULE Spec2Model ----
(***************************************************************************)
(* Model of the python subsystem: the FastAPI handlers of main.py and the  *)
(* OllamaClient of ollama_client.py.  Each inbound request is served by a  *)
(* worker thread (the handlers are plain `def`, so the framework runs them *)
(* in a thread pool); the threads share the single module-level            *)
(* OllamaClient and its chat_sessions dictionary.  A thread's steps are    *)
(* the statements of the handler that read or write that shared state.     *)
(***************************************************************************)
EXTENDS Naturals, Sequences, FiniteSets, TLC

(* ------------------------------ bounds -------------------------------- *)
\* worker threads serving requests
NThreads == 2
\* requests accepted over a run
MaxRequests == 3

(* --------------------------- program constants ------------------------ *)
\* httpx.post(..., timeout=60)
TimeoutSeconds == 60

(* ------------------------------ values -------------------------------- *)
\* Optional[str]: None is <<>>, a value v is <<v>>
None == << >>
Some(v) == << v >>

Threads == 1..NThreads
\* the values uuid4 can return (one per request at most)
UUIDs == { "u" \o ToString(i) : i \in 1..MaxRequests }
\* a chat id that was never generated
UnknownId == "zz"
Prompts == {None, Some(""), Some("p")}

\* the bodies of POST /chat/init that are tried: no prompt, the empty prompt,
\* a prompt; two sessions can have the same or different models and prompts
InitBodies ==
  { [model |-> "m1", system_prompt |-> q] : q \in Prompts }
  \cup { [model |-> "m2", system_prompt |-> Some("p")] }
\* the i-th request carries the instruction "q<i>": the texts of different
\* requests differ, so the order of the turns can be read off a transcript
Instruction(i) == "q" \o ToString(i)
Replies == {"r"}

\* truthiness of an Optional[str], as `if system_prompt:` and `if req.chat_id:`
Truthy(opt) == opt # None /\ opt[1] # ""

Turn(role, content) == [role |-> role, content |-> content]

\* the request's parameters dict: the reserved keys it may carry and its other
\* keys; either the empty dict or one that names every reserved key
NoParams == [model |-> None, messages |-> None, prompt |-> None, stream |-> None,
             extra |-> {}]
Shadowing == [model |-> Some("m2"), messages |-> Some(<< >>), prompt |-> Some("x"),
              stream |-> Some(TRUE), extra |-> {"temperature"}]

\* the model and parameters fields of the bodies of POST /process that are
\* tried: each names a model that differs from "m1" sessions or from the
\* model key of its own parameters
ProcessBodies ==
  { [model |-> "m2", parameters |-> NoParams],
    [model |-> "m1", parameters |-> Shadowing] }

\* Python's None as the value of a JSON field that is null: differs from
\* every text
Null == "<None>"

\* what the daemon may do with one POST: answer 200 with a JSON body holding
\* the text, answer 200 with JSON lacking the text field, answer 200 with JSON
\* whose text field is null, answer 200 with a body that is not JSON, answer a
\* non-2xx status, or not answer at all
DaemonOutcomes ==
  { [kind |-> "ok", text |-> r] : r \in Replies }
  \cup { [kind |-> k, text |-> ""] :
           k \in {"nofield", "null", "badjson", "status", "timeout"} }

(* ------------------------------- state -------------------------------- *)
VARIABLES
  chat_sessions,  \* OllamaClient.chat_sessions: chat id -> reference of a session dict
  heap,           \* the session dicts ever allocated: reference -> [model, messages]
  pc,             \* per thread: the statement it is at ("idle": serving nothing)
  req,            \* per thread: the request it serves
  session,        \* per thread: the local `session` of chat_message (0: unbound)
  sent,           \* per thread: the payloads it has posted to the daemon in this call
  pre,            \* per thread: the addressed chat id when the request arrived:
                  \* whether it was in the table, whether a cleanup of it had
                  \* completed, and its messages
  last,           \* the response returned last, with the request it answers, what
                  \* the daemon did with the call's POST, the payloads posted and
                  \* the arrival snapshot; blank again when the next request arrives
  hist,           \* per chat id: the finished daemon calls of its turns, in order
  created,        \* per chat id handed out: the model and prompt of its creation
  closed,         \* chat ids for which a cleanup has completed
  nreq            \* requests accepted so far

vars == << chat_sessions, heap, pc, req, session, sent, pre, last, hist,
           created, closed, nreq >>

NoReq == [op |-> "none", n |-> 0, model |-> "", chat_id |-> None, text |-> "",
          prompt |-> None, params |-> NoParams]
NoResp == [status |-> None, result |-> None, chat_id |-> None, error |-> None]
NoOutcome == [kind |-> "none", text |-> ""]
NoPre == [known |-> FALSE, closed |-> FALSE, messages |-> << >>]
NoLast == [req |-> NoReq, resp |-> NoResp, got |-> NoOutcome, sent |-> << >>,
           pre |-> NoPre]

Known(id) == id \in DOMAIN chat_sessions
\* the messages list and the model of the session stored under id
Messages(id) == heap[chat_sessions[id]].messages
ModelOf(id) == heap[chat_sessions[id]].model

\* what is recorded about chat id `id` when a request naming it arrives
Snapshot(id) ==
  [known |-> Known(id), closed |-> id \in closed,
   messages |-> IF Known(id) THEN Messages(id) ELSE << >>]

Init ==
  /\ chat_sessions = << >>
  /\ heap = << >>
  /\ pc = [t \in Threads |-> "idle"]
  /\ req = [t \in Threads |-> NoReq]
  /\ session = [t \in Threads |-> 0]
  /\ sent = [t \in Threads |-> << >>]
  /\ pre = [t \in Threads |-> NoPre]
  /\ last = NoLast
  /\ hist = [i \in UUIDs |-> << >>]
  /\ created = << >>
  /\ closed = {}
  /\ nreq = 0

(* --------------------------- requests and responses ------------------- *)
\* chat ids a caller can name: the ones handed out so far (uuid4 values cannot
\* be guessed before) and one never generated
ChatIds == DOMAIN created \cup {UnknownId}

\* a thread that serves no request
Free(t) == pc[t] = "idle"

\* the pool hands a new request to a free thread (the workers are
\* interchangeable: the first free one takes it)
Accept(t) ==
  /\ Free(t)
  /\ \A u \in Threads : u < t => ~Free(u)
  /\ nreq < MaxRequests
  /\ nreq' = nreq + 1

\* the call of thread t: its request, the payloads posted, the arrival snapshot
Call(t) == [req |-> req[t], sent |-> sent[t], pre |-> pre[t]]
\* the call of a request r that has just arrived
NewCall(r, snapshot) == [req |-> r, sent |-> << >>, pre |-> snapshot]

\* the handler of call c returns `response`; the thread is free again
Respond(t, c, response, outcome) ==
  /\ last' = [req |-> c.req, resp |-> response, got |-> outcome, sent |-> c.sent,
              pre |-> c.pre]
  /\ pc' = [pc EXCEPT ![t] = "idle"]
  /\ req' = [req EXCEPT ![t] = NoReq]
  /\ session' = [session EXCEPT ![t] = 0]
  /\ sent' = [sent EXCEPT ![t] = << >>]
  /\ pre' = [pre EXCEPT ![t] = NoPre]

\* the handler of the arrived call c goes on to statement `at`
Proceed(t, c, at) ==
  /\ last' = NoLast
  /\ pc' = [pc EXCEPT ![t] = at]
  /\ req' = [req EXCEPT ![t] = c.req]
  /\ sent' = [sent EXCEPT ![t] = c.sent]
  /\ pre' = [pre EXCEPT ![t] = c.pre]
  /\ UNCHANGED session

(* ------------------------- OllamaClient.init_chat --------------------- *)
\* mutant: the system prompt is not put into the messages
InitMessages_Dropped(system_prompt) == << >>

InitMessages(system_prompt) ==
  IF Truthy(system_prompt) THEN << Turn("system", system_prompt[1]) >> ELSE << >>

\* self.chat_sessions[chat_id] = {"model": model, "messages": messages}
StoreSession(chat_id, model, system_prompt) ==
  /\ heap' = Append(heap, [model |-> model, messages |-> InitMessages(system_prompt)])
  /\ chat_sessions' = [i \in DOMAIN chat_sessions \cup {chat_id} |->
                         IF i = chat_id THEN Len(heap) + 1 ELSE chat_sessions[i]]

\* mutant: the same value is returned again
Uuid4_Repeats == { "u1" }

\* uuid.uuid4(): a value no earlier call returned.  The values carry no
\* meaning, so they are drawn in the order u1, u2, ...
Uuid4 == { i \in UUIDs : i = "u" \o ToString(Cardinality(DOMAIN created) + 1) }

\* POST /chat/init
InitChat(t) ==
  /\ Accept(t)
  /\ \E body \in InitBodies, chat_id \in Uuid4 :
       /\ StoreSession(chat_id, body.model, body.system_prompt)
       /\ created' = [i \in DOMAIN created \cup {chat_id} |->
                        IF i = chat_id
                        THEN [model |-> body.model, prompt |-> body.system_prompt]
                        ELSE created[i]]
       /\ Respond(t, NewCall([NoReq EXCEPT !.op = "init", !.n = nreq + 1,
                                           !.model = body.model,
                                           !.prompt = body.system_prompt], NoPre),
                  [NoResp EXCEPT !.chat_id = Some(chat_id)], NoOutcome)
  /\ UNCHANGED << hist, closed >>

(* ------------------------------ main.process -------------------------- *)
\* `if req.chat_id:` -- the chat branch is taken for a truthy chat_id
RoutesToChat(chat_id) == Truthy(chat_id)

\* except Exception as e: return ProcessResponse(error=str(e), chat_id=req.chat_id)
ProcessError(t, c, exc, outcome) ==
  Respond(t, c, [NoResp EXCEPT !.error = Some(exc), !.chat_id = c.req.chat_id], outcome)

\* return ProcessResponse(result=result, chat_id=req.chat_id)
ProcessResult(t, c, result, outcome) ==
  Respond(t, c, [NoResp EXCEPT !.result = IF result = Null THEN None ELSE Some(result),
                               !.chat_id = c.req.chat_id],
          outcome)

(* ----------------------- OllamaClient.chat_message -------------------- *)
\* mutant: the messages list is one object shared by the sessions of a model
AppendTurn_Shared(ref, turn) ==
  heap' = [r \in DOMAIN heap |->
             IF heap[r].model = heap[ref].model
             THEN [heap[r] EXCEPT !.messages = Append(@, turn)]
             ELSE heap[r]]

\* mutant: the turn is inserted at the front of the list
AppendTurn_Prepend(ref, turn) ==
  heap' = [heap EXCEPT ![ref].messages = << turn >> \o @]

\* session["messages"].append(turn) on the session dict at reference ref
AppendTurn(ref, turn) ==
  heap' = [heap EXCEPT ![ref].messages = Append(@, turn)]

\* the POST of chat_message: its endpoint, its timeout and the json payload
\* {"model": ..., "messages": ..., "stream": False, **parameters}
ChatPayload(ref, parameters) ==
  [ endpoint |-> "/api/chat",
    model    |-> IF parameters.model # None THEN parameters.model[1] ELSE heap[ref].model,
    messages |-> IF parameters.messages # None THEN parameters.messages[1]
                 ELSE heap[ref].messages,
    prompt   |-> parameters.prompt,
    stream   |-> IF parameters.stream # None THEN parameters.stream[1] ELSE FALSE,
    extra    |-> parameters.extra,
    timeout  |-> TimeoutSeconds ]

\* mutant: raise_for_status() is left out, so the body of an error status is
\* parsed like any other and holds no message.content
ChatParse_NoRaise(outcome) ==
  CASE outcome.kind = "ok"      -> [ok |-> TRUE,  text |-> outcome.text]
    [] outcome.kind \in {"nofield", "status"} -> [ok |-> TRUE, text |-> ""]
    [] outcome.kind = "null"    -> [ok |-> TRUE,  text |-> Null]
    [] OTHER                    -> [ok |-> FALSE, text |-> outcome.kind]

\* raise_for_status(), response.json(), data.get("message", {}).get("content", "")
ChatParse(outcome) ==
  CASE outcome.kind = "ok"      -> [ok |-> TRUE,  text |-> outcome.text]
    [] outcome.kind = "nofield" -> [ok |-> TRUE,  text |-> ""]
    [] outcome.kind = "null"    -> [ok |-> TRUE,  text |-> Null]
    [] OTHER                    -> [ok |-> FALSE, text |-> outcome.kind]

\* mutant: the membership test is left out
CmCheck_NoCheck(t, c) == Proceed(t, c, "cm_lookup")

\* chat_message is entered by the arrived call c:
\* if chat_id not in self.chat_sessions: raise ValueError
CmCheck(t, c) ==
  IF Known(c.req.chat_id[1])
  THEN Proceed(t, c, "cm_lookup")
  ELSE ProcessError(t, c, "ValueError", NoOutcome)

\* session = self.chat_sessions[chat_id]
CmLookup(t) ==
  /\ pc[t] = "cm_lookup"
  /\ IF Known(req[t].chat_id[1])
     THEN /\ session' = [session EXCEPT ![t] = chat_sessions[req[t].chat_id[1]]]
          /\ pc' = [pc EXCEPT ![t] = "cm_append"]
          /\ UNCHANGED << req, sent, pre, last >>
     ELSE ProcessError(t, Call(t), "KeyError", NoOutcome)
  /\ UNCHANGED << chat_sessions, heap, hist, created, closed, nreq >>

\* mutant: the user turn is not appended before the call
CmAppendUser_Skip(t) ==
  /\ pc[t] = "cm_append"
  /\ pc' = [pc EXCEPT ![t] = "cm_post"]
  /\ UNCHANGED << chat_sessions, heap, req, session, sent, pre, last, hist, created,
                  closed, nreq >>

\* session["messages"].append({"role": "user", "content": message})
CmAppendUser(t) ==
  /\ pc[t] = "cm_append"
  /\ AppendTurn(session[t], Turn("user", req[t].text))
  /\ pc' = [pc EXCEPT ![t] = "cm_post"]
  /\ UNCHANGED << chat_sessions, req, session, sent, pre, last, hist, created,
                  closed, nreq >>

\* mutant: the post is issued a second time
CmPost_Twice(t) ==
  /\ pc[t] = "cm_post"
  /\ sent' = [sent EXCEPT ![t] = Append(Append(@, ChatPayload(session[t], req[t].params)),
                                        ChatPayload(session[t], req[t].params))]
  /\ pc' = [pc EXCEPT ![t] = "cm_wait"]
  /\ UNCHANGED << chat_sessions, heap, req, session, pre, last, hist, created,
                  closed, nreq >>

\* payload = {...}; httpx.post(f"{base_url}/api/chat", json=payload, timeout=60)
CmPost(t) ==
  /\ pc[t] = "cm_post"
  /\ sent' = [sent EXCEPT ![t] = Append(@, ChatPayload(session[t], req[t].params))]
  /\ pc' = [pc EXCEPT ![t] = "cm_wait"]
  /\ UNCHANGED << chat_sessions, heap, req, session, pre, last, hist, created,
                  closed, nreq >>

\* the finished daemon call is noted in the history of the chat id
Record(t, ok, text) ==
  hist' = [hist EXCEPT ![req[t].chat_id[1]] =
             Append(@, [msg |-> req[t].text, ok |-> ok, reply |-> text])]

\* the daemon answered and the text was extracted: append it and return it
CmReplyOk(t) ==
  /\ pc[t] = "cm_wait"
  /\ \E o \in DaemonOutcomes :
       /\ ChatParse(o).ok
       /\ AppendTurn(session[t], Turn("assistant", ChatParse(o).text))
       /\ ProcessResult(t, Call(t), ChatParse(o).text, o)
       /\ Record(t, TRUE, ChatParse(o).text)
  /\ UNCHANGED << chat_sessions, created, closed, nreq >>

\* except Exception as e: raise RuntimeError(f"Ollama chat API error: {e}")
CmReplyFail(t) ==
  /\ pc[t] = "cm_wait"
  /\ \E o \in DaemonOutcomes :
       /\ ~ChatParse(o).ok
       /\ ProcessError(t, Call(t), "RuntimeError", o)
       /\ Record(t, FALSE, "")
  /\ UNCHANGED << chat_sessions, heap, created, closed, nreq >>

(* ----------------------- OllamaClient.single_query -------------------- *)
\* the POST of single_query: its endpoint, its timeout and the json payload
\* {"model": model, "prompt": instruction, "stream": False, **parameters}
GeneratePayload(model, instruction, parameters) ==
  [ endpoint |-> "/api/generate",
    model    |-> IF parameters.model # None THEN parameters.model[1] ELSE model,
    messages |-> IF parameters.messages # None THEN parameters.messages[1] ELSE << >>,
    prompt   |-> IF parameters.prompt # None THEN parameters.prompt ELSE Some(instruction),
    stream   |-> IF parameters.stream # None THEN parameters.stream[1] ELSE FALSE,
    extra    |-> parameters.extra,
    timeout  |-> TimeoutSeconds ]

\* mutant: the text of the response body is not extracted
GenerateParse_Blank(outcome) ==
  CASE outcome.kind \in {"ok", "nofield"} -> [ok |-> TRUE, text |-> ""]
    [] outcome.kind = "null"              -> [ok |-> TRUE, text |-> Null]
    [] OTHER                              -> [ok |-> FALSE, text |-> outcome.kind]

\* raise_for_status(), response.json(), data.get("response", "")
GenerateParse(outcome) ==
  CASE outcome.kind = "ok"      -> [ok |-> TRUE,  text |-> outcome.text]
    [] outcome.kind = "nofield" -> [ok |-> TRUE,  text |-> ""]
    [] outcome.kind = "null"    -> [ok |-> TRUE,  text |-> Null]
    [] OTHER                    -> [ok |-> FALSE, text |-> outcome.kind]

\* single_query is entered by the arrived call c:
\* payload = {...}; httpx.post(url, json=payload, timeout=60)
SqPost(t, c) ==
  Proceed(t, [c EXCEPT !.sent = << GeneratePayload(c.req.model, c.req.text,
                                                   c.req.params) >>], "sq_wait")

SqReplyOk(t) ==
  /\ pc[t] = "sq_wait"
  /\ \E o \in DaemonOutcomes :
       /\ GenerateParse(o).ok
       /\ ProcessResult(t, Call(t), GenerateParse(o).text, o)
  /\ UNCHANGED << chat_sessions, heap, hist, created, closed, nreq >>

\* except Exception as e: raise RuntimeError(f"Ollama API error: {e}")
SqReplyFail(t) ==
  /\ pc[t] = "sq_wait"
  /\ \E o \in DaemonOutcomes :
       /\ ~GenerateParse(o).ok
       /\ ProcessError(t, Call(t), "RuntimeError", o)
  /\ UNCHANGED << chat_sessions, heap, hist, created, closed, nreq >>

(* --------------------------- main.process, entry ---------------------- *)
\* POST /process arrives, is routed, and the routed call executes its first
\* statement (the arrival itself touches nothing shared)
Process(t) ==
  /\ Accept(t)
  /\ \E body \in ProcessBodies,
        chat_id \in {None, Some("")} \cup { Some(i) : i \in ChatIds } :
       LET r == [NoReq EXCEPT !.op = "process", !.n = nreq + 1,
                              !.model = body.model, !.text = Instruction(nreq + 1),
                              !.chat_id = chat_id, !.params = body.parameters]
       IN IF RoutesToChat(chat_id)
          THEN CmCheck(t, NewCall(r, Snapshot(chat_id[1])))
          ELSE SqPost(t, NewCall(r, NoPre))
  /\ UNCHANGED << chat_sessions, heap, hist, created, closed >>

(* ------------------------- cleanup_chat (both files) ------------------ *)
\* the cleanup handler is over for chat_id
Closed(chat_id) == closed' = closed \cup ({chat_id} \cap DOMAIN created)

\* return {"status": "success"}
CleanupSuccess(t, c) ==
  Respond(t, c, [NoResp EXCEPT !.status = Some("success")], NoOutcome)

\* except Exception as e: return {"error": str(e)}
CleanupError(t, c, exc) ==
  Respond(t, c, [NoResp EXCEPT !.error = Some(exc)], NoOutcome)

\* mutant: the membership test is left out
ClCheck_NoCheck(t, c) ==
  /\ Proceed(t, c, "cl_del")
  /\ UNCHANGED closed

\* cleanup_chat is entered by the arrived call c: if chat_id in self.chat_sessions:
ClCheck(t, c) ==
  IF Known(c.req.chat_id[1])
  THEN /\ Proceed(t, c, "cl_del")
       /\ UNCHANGED closed
  ELSE /\ CleanupSuccess(t, c)
       /\ Closed(c.req.chat_id[1])

\* DELETE /chat/{chat_id} arrives and the handler executes the membership test
Cleanup(t) ==
  /\ Accept(t)
  /\ \E chat_id \in ChatIds :
       ClCheck(t, NewCall([NoReq EXCEPT !.op = "cleanup", !.n = nreq + 1,
                                        !.chat_id = Some(chat_id)],
                          Snapshot(chat_id)))
  /\ UNCHANGED << chat_sessions, heap, hist, created >>

\* mutant: the entry is not removed
DelSession_Keep(chat_id) == chat_sessions' = chat_sessions

\* del self.chat_sessions[chat_id]
DelSession(chat_id) ==
  chat_sessions' = [i \in DOMAIN chat_sessions \ {chat_id} |-> chat_sessions[i]]

ClDel(t) ==
  /\ pc[t] = "cl_del"
  /\ IF Known(req[t].chat_id[1])
     THEN /\ DelSession(req[t].chat_id[1])
          /\ CleanupSuccess(t, Call(t))
     ELSE /\ CleanupError(t, Call(t), "KeyError")
          /\ UNCHANGED chat_sessions
  /\ Closed(req[t].chat_id[1])
  /\ UNCHANGED << heap, hist, created, nreq >>

(* ------------------------------ the system ---------------------------- *)
\* a request arrives at a free thread
Begin(t) == InitChat(t) \/ Process(t) \/ Cleanup(t)

\* a thread executes its next statement
Run(t) ==
  \/ CmLookup(t) \/ CmAppendUser(t) \/ CmPost(t) \/ CmReplyOk(t) \/ CmReplyFail(t)
  \/ SqReplyOk(t) \/ SqReplyFail(t)
  \/ ClDel(t)

Next == \E t \in Threads : Begin(t) \/ Run(t)

Spec == Init /\ [][Next]_vars

\* requests served one after another: a request is accepted only when no
\* other one is being served
Quiet == \A u \in Threads : Free(u)
NextSeq == \E t \in Threads : (Quiet /\ Begin(t)) \/ Run(t)

SeqSpec == Init /\ [][NextSeq]_vars

(* ============================ properties ============================== *)
\* the request of the response returned last was a chat turn
LastIsTurn == last.req.op = "process" /\ RoutesToChat(last.req.chat_id)
\* a chat turn on id is being served
InFlightOn(id) ==
  \E t \in Threads : ~Free(t) /\ req[t].op = "process" /\ req[t].chat_id = Some(id)
\* a step in which a handler returns
Returns == last' # last /\ last' # NoLast
\* the daemon call failed: non-success status, unparsable body, no answer in time
GatewayFailed(o) == o.kind \in {"status", "badjson", "timeout"}

AllOk(h) == \A k \in 1..Len(h) : h[k].ok
SystemTurns(id) == IF Truthy(created[id].prompt) THEN 1 ELSE 0
\* the turns after the optional system turn
Dialogue(id) == SubSeq(Messages(id), SystemTurns(id) + 1, Len(Messages(id)))

\* the user/assistant pairs of a sequence of finished calls, in call order
RECURSIVE Exchange(_)
Exchange(h) ==
  IF h = << >> THEN << >>
  ELSE << Turn("user", Head(h).msg), Turn("assistant", Head(h).reply) >>
       \o Exchange(Tail(h))

\* C1: with requests served one after another, after N turns of a session
\* that all succeeded its transcript has (1 if a system turn was inserted at
\* creation, else 0) + 2*N turns, and after the system turn they are
\* user_1, assistant_1, ..., user_N, assistant_N: the messages of the calls
\* and the replies returned, in call order.
C1_TranscriptAfterSuccessfulTurns ==
  \A id \in DOMAIN chat_sessions :
    (AllOk(hist[id]) /\ ~InFlightOn(id)) =>
      /\ Len(Messages(id)) = SystemTurns(id) + 2 * Len(hist[id])
      /\ Dialogue(id) = Exchange(hist[id])
      /\ (LastIsTurn /\ last.req.chat_id = Some(id) /\ last.resp.result # None) =>
            last.resp.result = Some(Messages(id)[Len(Messages(id))].content)

C1_Witness ==
  \E id \in DOMAIN chat_sessions :
    /\ Len(hist[id]) = 2 /\ AllOk(hist[id]) /\ ~InFlightOn(id)
    /\ hist[id][1].reply # hist[id][2].reply

\* C2: a chat turn on an id that is not in the session table when it
\* arrives is answered with the ValueError of the membership test
\* (SessionNotFound), posts nothing to the daemon, and leaves the table and
\* every session dict as they were.
C2_Step ==
  (Returns /\ last'.req.op = "process" /\ RoutesToChat(last'.req.chat_id)
           /\ ~last'.pre.known) =>
    /\ last'.resp = [NoResp EXCEPT !.error = Some("ValueError"),
                                   !.chat_id = last'.req.chat_id]
    /\ last'.sent = << >>
    /\ UNCHANGED << chat_sessions, heap >>
C2_UnknownSessionFails == [][C2_Step]_vars

C2_Witness ==
  /\ LastIsTurn /\ ~last.pre.known
  /\ last.resp.error = Some("ValueError")
  /\ DOMAIN chat_sessions # {}

\* C3: with requests served one after another, a chat turn whose daemon call
\* fails is answered with the RuntimeError of chat_message (GatewayError), the
\* session is still in the table, and its transcript is the transcript at
\* arrival followed by the one new user turn.
C3_GatewayFailureKeepsUserTurn ==
  (LastIsTurn /\ GatewayFailed(last.got)) =>
    /\ last.resp = [NoResp EXCEPT !.error = Some("RuntimeError"),
                                  !.chat_id = last.req.chat_id]
    /\ Known(last.req.chat_id[1])
    /\ Messages(last.req.chat_id[1])
         = Append(last.pre.messages, Turn("user", last.req.text))

C3_Witness ==
  /\ LastIsTurn /\ GatewayFailed(last.got)
  /\ Len(last.pre.messages) >= 2

\* thread t has appended the user turn of its call and has no answer yet
TurnPending(t) == pc[t] \in {"cm_post", "cm_wait"}
Range(q) == { q[k] : k \in 1..Len(q) }

\* C4: at most one turn per chat id is in flight at any time, and the
\* transcript posted for a call holds no user turn of another call that is
\* still unanswered.
C4_OneTurnInFlight ==
  /\ \A t, u \in Threads :
       (t # u /\ TurnPending(t) /\ TurnPending(u)) => req[t].chat_id # req[u].chat_id
  /\ \A t, u \in Threads :
       (t # u /\ pc[t] = "cm_wait" /\ TurnPending(u) /\ req[t].chat_id = req[u].chat_id)
         => Turn("user", req[u].text) \notin Range(sent[t][1].messages)

\* the number of turns of role `role` among the first k turns of d
Count(d, k, role) == Cardinality({ j \in 1..k : d[j].role = role })
Odd(k) == k % 2 = 1

C6_SystemTurn ==
  \A id \in DOMAIN chat_sessions :
    /\ \A k \in 1..Len(Messages(id)) :
         Messages(id)[k].role = "system" =>
           /\ k = 1
           /\ created[id].prompt = Some(Messages(id)[k].content)
    /\ Truthy(created[id].prompt) =>
         /\ Messages(id) # << >>
         /\ Messages(id)[1] = Turn("system", created[id].prompt[1])
    /\ created[id].prompt = None =>
         \A k \in 1..Len(Messages(id)) : Messages(id)[k].role # "system"

C6_Witness ==
  \E id \in DOMAIN chat_sessions :
    /\ Truthy(created[id].prompt)
    /\ Len(Messages(id)) >= 3
    /\ Messages(id)[1].role = "system"

\* C7: an id whose cleanup has completed is never in the table again, is
\* never handed out again, and a chat turn that arrives afterwards is
\* answered with the ValueError of the membership test, nothing posted.
C7_ClosedIsTerminal ==
  /\ closed \cap DOMAIN chat_sessions = {}
  /\ last.req.op = "init" => last.resp.chat_id[1] \notin closed
  /\ (LastIsTurn /\ last.pre.closed) =>
       /\ last.resp = [NoResp EXCEPT !.error = Some("ValueError"),
                                     !.chat_id = last.req.chat_id]
       /\ last.sent = << >>

C7_Witness ==
  /\ LastIsTurn /\ last.pre.closed
  /\ last.req.chat_id[1] \in closed
  /\ last.resp.error = Some("ValueError")

\* the table f without the entry of id
Without(f, id) == [i \in DOMAIN f \ {id} |-> f[i]]

\* C8: with requests served one after another, every cleanup (of a known id,
\* of an id already cleaned up, of a never-created id) returns success, and
\* the table after it is the table before it without the entry of the id:
\* nothing else changes, and a second cleanup changes nothing.
C8_Step ==
  /\ (Returns /\ last'.req.op = "cleanup") =>
       /\ last'.resp = [NoResp EXCEPT !.status = Some("success")]
       /\ chat_sessions' = Without(chat_sessions, last'.req.chat_id[1])
       /\ heap' = heap
  /\ (\E t \in Threads : pc[t] = "idle" /\ pc'[t] = "cl_del") =>
       UNCHANGED << chat_sessions, heap >>
C8_CloseIdempotent == [][C8_Step]_vars

C8_Witness ==
  /\ last.req.op = "cleanup" /\ last.pre.closed /\ ~last.pre.known
  /\ last.resp.status = Some("success")

\* C9: every DELETE /chat/{chat_id} is answered with {status: "success"},
\* never with an error body.
C9_DeleteAlwaysSuccess ==
  last.req.op = "cleanup" => last.resp = [NoResp EXCEPT !.status = Some("success")]

\* the chat id a request addresses (for init: the id it is given)
Addressed(r, rsp) ==
  IF r.op = "init" THEN {rsp.chat_id[1]}
  ELSE IF r.chat_id # None THEN {r.chat_id[1]} ELSE {}
\* the chat ids addressed by the request whose handler takes this step
StepTargets ==
  (IF Returns THEN Addressed(last'.req, last'.resp) ELSE {})
  \cup UNION { Addressed(req'[t], NoResp) :
                 t \in { u \in Threads : pc'[u] # pc[u] /\ pc'[u] # "idle" } }

\* C10: a step of a request addressed to chat id A leaves the entry, the
\* model and the transcript of every other chat id B in the table unchanged.
C10_Step ==
  \A B \in DOMAIN chat_sessions \ StepTargets :
    /\ B \in DOMAIN chat_sessions'
    /\ heap'[chat_sessions'[B]] = heap[chat_sessions[B]]
C10_SessionIsolation == [][C10_Step]_vars

C10_Witness ==
  \E A, B \in DOMAIN chat_sessions :
    /\ A # B /\ created[A] = created[B]
    /\ Len(Messages(A)) > Len(Messages(B))

\* the request is served by single_query
SingleShot(r) == r.op = "process" /\ ~RoutesToChat(r.chat_id)
\* this step is taken by a thread serving a single query
SingleShotStep ==
  \E t \in Threads : pc'[t] # pc[t] /\ (SingleShot(req[t]) \/ SingleShot(req'[t]))

\* C11: no step of a single query (its arrival and post, its successful or
\* failed return) changes the session table or any session dict; it posts to
\* the generate endpoint, a daemon response holding a text makes that text
\* the result, and a failed daemon call is answered with the RuntimeError of
\* single_query (GatewayError).
C11_Step ==
  /\ SingleShotStep => UNCHANGED << chat_sessions, heap, hist, created, closed >>
  /\ (Returns /\ SingleShot(last'.req)) =>
       /\ Len(last'.sent) = 1 /\ last'.sent[1].endpoint = "/api/generate"
       /\ last'.got.kind = "ok" =>
            last'.resp = [NoResp EXCEPT !.result = Some(last'.got.text),
                                        !.chat_id = last'.req.chat_id]
       /\ GatewayFailed(last'.got) =>
            last'.resp = [NoResp EXCEPT !.error = Some("RuntimeError"),
                                        !.chat_id = last'.req.chat_id]
C11_StatelessLeavesTable == [][C11_Step]_vars

C11_Witness ==
  /\ SingleShot(last.req) /\ last.req.chat_id = None
  /\ last.got.kind = "ok" /\ last.resp.result = Some(last.got.text)
  /\ \E id \in DOMAIN chat_sessions : Len(Messages(id)) >= 2

\* the statements of chat_message
ChatPcs == {"cm_lookup", "cm_append", "cm_post", "cm_wait"}
\* the endpoint a request is to be served by, going by the presence of chat_id
EndpointFor(r) == IF r.chat_id # None THEN "/api/chat" ELSE "/api/generate"

\* C12: a POST /process is served by chat_message exactly if its body carries
\* a chat_id (any string, the empty one included) and by single_query exactly
\* if chat_id is absent; a request carrying a chat_id posts nothing to the
\* generate endpoint.
C12_RoutingByPresence ==
  /\ \A t \in Threads :
       (req[t].op = "process" /\ ~Free(t)) =>
         (req[t].chat_id # None <=> pc[t] \in ChatPcs)
  /\ \A t \in Threads : \A k \in 1..Len(sent[t]) :
       sent[t][k].endpoint = EndpointFor(req[t])
  /\ last.req.op = "process" =>
       /\ \A k \in 1..Len(last.sent) : last.sent[k].endpoint = EndpointFor(last.req)
       /\ last.req.chat_id = None => Len(last.sent) = 1

\* C13: the stored model of a session is the model given at its creation,
\* and every payload posted for a turn of the session carries that model,
\* whatever the request's model field and parameters are.
C13_ModelFixed ==
  /\ \A id \in DOMAIN chat_sessions : ModelOf(id) = created[id].model
  /\ \A t \in Threads : \A k \in 1..Len(sent[t]) :
       pc[t] \in ChatPcs => sent[t][k].model = created[req[t].chat_id[1]].model
  /\ LastIsTurn =>
       \A k \in 1..Len(last.sent) :
         last.sent[k].model = created[last.req.chat_id[1]].model

\* thread t posts the payload of its call in this step
Posts(t) == Len(sent'[t]) = Len(sent[t]) + 1
Posted(t) == sent'[t][Len(sent'[t])]

\* C15: whatever the parameters are, a posted payload has stream = false,
\* the model of the session (chat) or of the request (single query), the
\* session's transcript as messages (chat) or the instruction as prompt
\* (single query), and the other keys of the parameters as they were given.
C15_Step ==
  \A t \in Threads :
    Posts(t) =>
      /\ Posted(t).stream = FALSE
      /\ Posted(t).extra = req'[t].params.extra
      /\ IF RoutesToChat(req'[t].chat_id)
         THEN /\ Posted(t).endpoint = "/api/chat"
              /\ Posted(t).model = heap[session[t]].model
              /\ Posted(t).messages = heap[session[t]].messages
              /\ Posted(t).prompt = req'[t].params.prompt
         ELSE /\ Posted(t).endpoint = "/api/generate"
              /\ Posted(t).model = req'[t].model
              /\ Posted(t).prompt = Some(req'[t].text)
C15_ReservedFieldsProtected == [][C15_Step]_vars

\* a handler is over in this step: its thread is free again, or the request
\* that arrives is answered by the first statement
HandlerEnds ==
  \/ \E t \in Threads : pc[t] # "idle" /\ pc'[t] = "idle"
  \/ nreq' # nreq /\ pc' = pc

\* C14: every handler ends by returning a response body, never by an
\* exception; the body of a POST /process has exactly one of result and error
\* set and its chat_id is the request's chat_id; the body of a POST /chat/init
\* has a non-empty chat_id and no error, or the chat_id "" and an error.
C14_Step ==
  HandlerEnds =>
    /\ Returns
    /\ last'.req.op \in {"init", "process", "cleanup"}
    /\ last'.req.op = "process" =>
         /\ (last'.resp.result = None) # (last'.resp.error = None)
         /\ last'.resp.chat_id = last'.req.chat_id
         /\ last'.resp.status = None
    /\ last'.req.op = "init" =>
         \/ /\ last'.resp.chat_id \notin {None, Some("")}
            /\ last'.resp.error = None
         \/ /\ last'.resp.chat_id = Some("")
            /\ last'.resp.error # None
C14_InBandReporting == [][C14_Step]_vars

\* C16: with requests served one after another, the messages posted for a
\* turn on a known session are the transcript stored when the call arrived
\* followed by the new user turn, and when the call succeeds the stored
\* transcript is those messages followed by the assistant turn of the reply
\* (so after a failed turn a the turn b posts ..., user a, user b).
C16_Step ==
  \A t \in Threads :
    /\ (Posts(t) /\ pc[t] = "cm_post") =>
         Posted(t).messages = Append(pre[t].messages, Turn("user", req[t].text))
    /\ (pc[t] = "cm_wait" /\ Returns /\ last'.resp.error = None) =>
         heap'[session[t]].messages
           = Append(Append(pre[t].messages, Turn("user", req[t].text)),
                    Turn("assistant", ChatParse(last'.got).text))
C16_SendsStoredTranscript == [][C16_Step]_vars

\* C17: with requests served one after another, a turn whose daemon call was
\* answered with a success status and a body holding the text is answered
\* with that text and appends it as the assistant turn; a turn whose daemon
\* call got anything else (a non-success status, an unparsable body, a body
\* without the text, no answer in time) is answered with the RuntimeError of
\* chat_message and appends nothing after its user turn.
C17_ReplyOnlyFromWellFormed ==
  (LastIsTurn /\ last.got # NoOutcome) =>
    LET id == last.req.chat_id[1]
        asked == Append(last.pre.messages, Turn("user", last.req.text))
    IN IF last.got.kind = "ok"
       THEN /\ last.resp = [NoResp EXCEPT !.result = Some(last.got.text),
                                          !.chat_id = last.req.chat_id]
            /\ Messages(id) = Append(asked, Turn("assistant", last.got.text))
       ELSE /\ last.resp = [NoResp EXCEPT !.error = Some("RuntimeError"),
                                          !.chat_id = last.req.chat_id]
            /\ Messages(id) = asked

\* C18: in every interleaving a turn that fails is answered with the
\* ValueError of the membership test (SessionNotFound) or the RuntimeError of
\* the daemon call (GatewayError); a turn that posted nothing, its id removed
\* before the post, failed with the ValueError; and an id whose cleanup has
\* completed is not put back into the table by a turn still running.
C18_TurnOutcomeTaxonomy ==
  /\ (LastIsTurn /\ last.resp.error # None) =>
       last.resp.error \in {Some("ValueError"), Some("RuntimeError")}
  /\ (LastIsTurn /\ last.sent = << >>) => last.resp.error = Some("ValueError")
  /\ \A id \in closed : ~Known(id)

\* the turn was answered without a session: the id was not in the table at
\* the membership test, or no longer at the lookup
NoSession(rsp) == rsp.error \in {Some("ValueError"), Some("KeyError")}

\* C19: no call posts to the daemon more than once.  A call waiting for the
\* daemon has posted once, a call before its post not at all; a finished
\* single query and a finished turn that found its session posted exactly
\* once, whether the daemon call succeeded or failed; a turn on an id not in
\* the table, an init and a cleanup posted nothing.
C19_OnePostPerCall ==
  /\ \A t \in Threads :
       Len(sent[t]) = IF pc[t] \in {"cm_wait", "sq_wait"} THEN 1 ELSE 0
  /\ last.req.op \in {"init", "cleanup"} => last.sent = << >>
  /\ SingleShot(last.req) => Len(last.sent) = 1
  /\ LastIsTurn =>
       /\ Len(last.sent) = IF NoSession(last.resp) THEN 0 ELSE 1
       /\ ~last.pre.known => last.sent = << >>
       /\ last.got # NoOutcome <=> Len(last.sent) = 1

C19_Witness ==
  /\ LastIsTurn /\ GatewayFailed(last.got)
  /\ Len(last.sent) = 1 /\ last.sent[1].endpoint = "/api/chat"

\* p is a prefix of q
IsPrefix(p, q) == Len(p) <= Len(q) /\ SubSeq(q, 1, Len(p)) = p

\* C20: in every step the transcript of every session that stays in the
\* table is, before the step, a prefix of what it is after the step, and the
\* entry still refers to the same session dict (the same holds for every
\* session dict, in the table or not); an entry that appears in the table is
\* under an id that was never in the table before.
C20_Step ==
  /\ \A id \in DOMAIN chat_sessions \cap DOMAIN chat_sessions' :
       /\ chat_sessions'[id] = chat_sessions[id]
       /\ IsPrefix(Messages(id), heap'[chat_sessions'[id]].messages)
  /\ \A ref \in DOMAIN heap :
       /\ ref \in DOMAIN heap'
       /\ IsPrefix(heap[ref].messages, heap'[ref].messages)
       /\ heap'[ref].model = heap[ref].model
  /\ \A id \in DOMAIN chat_sessions' \ DOMAIN chat_sessions :
       id \notin DOMAIN created
C20_AppendOnly == [][C20_Step]_vars

C20_Witness ==
  \E A, B \in DOMAIN chat_sessions :
    /\ chat_sessions[A] < chat_sessions[B]
    /\ Len(Messages(A)) >= 2
    /\ Messages(A)[Len(Messages(A))].role = "assistant"
====
